---- MODULE Spec2Model ----
(***************************************************************************)
(* Client-side data synchronisation layer of src/src/App.jsx (component    *)
(* App, first definition in the file, lines 751-1744): the dataCache, the  *)
(* fetch coordinator fetchData with its helper safeFetch, the effect that  *)
(* re-runs it, the mutation gateway handleRequest with its callers, and    *)
(* handleLogout.                                                           *)
(*                                                                         *)
(* Scheduling.  The program is single threaded.  A step of the model is    *)
(* one run-to-completion piece of a handler: from its start, or from the   *)
(* resumption of an await, to its next await or its end.  State updates of *)
(* one such piece are batched into one render.  The effect of lines        *)
(* 946-961 runs after a render that changed one of its dependencies, with  *)
(* the closure of that render, before any other handler runs: the model    *)
(* raises effectPending in the step that changes a dependency and lets     *)
(* only useEffect run while it is raised.  The continuation of an await on *)
(* promises that are already resolved is a microtask and runs before any   *)
(* other task: see MicrotaskPending.                                       *)
(*                                                                         *)
(* safeFetch never reads shared state and the only thing it writes before  *)
(* the continuation of Promise.all is apiError, which no handler reads, so *)
(* the arrival of the responses of one fetchData call and the continuation *)
(* of its Promise.all are taken as one step (fetchDataSettle).             *)
(***************************************************************************)
EXTENDS Integers, Naturals, Sequences, FiniteSets, TLC

\* ------------------------------------------------------------------ bounds
MaxPending == 2        \* handler calls suspended at an await at one time
MaxTicks == 1          \* times the clock advances

\* --------------------------------------------------------------- constants
cacheTTL == 300000

collectionKeys == {"product_lines", "products"}

CacheKeys == {"product_lines", "products", "productLinesList"}

LOGS_API_PATH == "/api/audit_logs"

\* A slip of line 29: the products tab reads the product lines.
apiPath_one(key) == "/api/product_lines"

apiPath(key) == IF key = "products" THEN "/api/products" ELSE "/api/product_lines"

\* Date.now() when the component mounts: far beyond one TTL, so that an
\* entry with timestamp 0 is older than the TTL, as it is for any real date.
StartTime == 2 * cacheTTL

\* The clock advances by one TTL, or a millisecond less or more.
TickSteps == {cacheTTL - 1, cacheTTL, cacheTTL + 1}

EmptyEntry == [data |-> <<>>, timestamp |-> 0]

\* A slip of lines 773-777: the entries start with the time of the mount.
InitialCache_stamped == [k \in CacheKeys |-> [data |-> <<>>, timestamp |-> StartTime]]

InitialCache == [k \in CacheKeys |-> EmptyEntry]

\* Arrays a GET of path can answer with: the empty array, or a non-empty
\* array of records of that path (rev tells the answers apart).
Revs == {1}

Bodies(path) == {<<>>} \cup {<<[path |-> path, rev |-> v]>> : v \in Revs}

\* What the server, or the network, does with one request.
\*   ok            2xx, body parses
\*   http_error    non-2xx, body {message} or none
\*   auth_error    non-2xx, body {message: 'Invalid or expired token'}
\*   network_error fetch() rejects (TypeError: Failed to fetch)
\*   malformed     2xx, body does not parse: response.json() rejects
Outcomes == {"ok", "http_error", "auth_error", "network_error", "malformed"}

Sources == {"main", "logs", "productLines"}

VARIABLES
    authToken,            \* TRUE: a bearer token is held in state
    userData,             \* TRUE: a user profile is held in state
    sessionStorage,       \* [authToken, userData]: tab-scoped storage
    isInitialLoad,
    items,
    allProductLines,
    logs,
    activeCollectionKey,
    isLoading,
    apiError,
    dataCache,
    isFormVisible,        \* the form is shown, with the record typed into it
    isModalOpen,          \* modalData is set and the modal is open
    deleteDialog,         \* <<>> or <<closure>>: the confirmation of handleDelete
    authPending,          \* handleAuth of the login screen awaits its response
    logoutPending,        \* handleLogout calls awaiting the logout request
    resyncs,              \* fetchData calls awaiting Promise.all, oldest first
    mutations,            \* handleRequest calls awaiting fetch, oldest first
    effectPending,        \* a dependency of the effect changed in the last render
    now,                  \* Date.now()
    ticks,
    event,                \* the handler piece that ran last, and the calls
                          \* it made to successCallback and fetchData, in order
    formRecord,           \* the record a form holds when it is submitted:
                          \* newItemData, or formData of the modal
    warning,              \* the field names of the last validation message
    request               \* <<>> or <<r>>: the last request handleRequest built

vars == <<authToken, userData, sessionStorage, isInitialLoad, items,
          allProductLines, logs, activeCollectionKey, isLoading, apiError,
          dataCache, isFormVisible, isModalOpen, deleteDialog,
          authPending, logoutPending, resyncs, mutations, effectPending,
          now, ticks, event, formRecord, warning, request>>

formVars == <<formRecord, warning, request>>

\* ----------------------------------------------------------------- helpers
RemoveAt(s, i) == [j \in 1..(Len(s) - 1) |-> IF j < i THEN s[j] ELSE s[j + 1]]

\* An optional value is <<>> or <<v>>; a state setter that was not called
\* leaves the old value.
SetOr(opt, old) == IF opt = <<>> THEN old ELSE opt[Len(opt)]

\* The values a handler created in the current render closes over.
Closure == [authToken |-> authToken, userData |-> userData,
            isInitialLoad |-> isInitialLoad,
            activeCollectionKey |-> activeCollectionKey,
            dataCache |-> dataCache]

\* ------------------------------------------------------- fetchData, part 1
\* Two slips of line 841: `>=` for `>`, and a test that forgets the age.
shouldFetchMainData_ge(isUserAction, cl, currentTimestamp) ==
    isUserAction
      \/ (currentTimestamp - cl.dataCache[cl.activeCollectionKey].timestamp) >= cacheTTL

shouldFetchMainData_never(isUserAction, cl, currentTimestamp) ==
    isUserAction
      \/ cl.dataCache[cl.activeCollectionKey].data = <<>>

\* Line 841.
shouldFetchMainData(isUserAction, cl, currentTimestamp) ==
    isUserAction
      \/ (currentTimestamp - cl.dataCache[cl.activeCollectionKey].timestamp) > cacheTTL

\* A slip of line 842: the entry of the active key read for the list's.
shouldFetchProductLines_main(isUserAction, cl, currentTimestamp) ==
    isUserAction
      \/ (currentTimestamp - cl.dataCache[cl.activeCollectionKey].timestamp) > cacheTTL

\* Line 842.
shouldFetchProductLines(isUserAction, cl, currentTimestamp) ==
    isUserAction
      \/ (currentTimestamp - cl.dataCache["productLinesList"].timestamp) > cacheTTL

\* Line 843.
shouldFetchLogs(isUserAction) == isUserAction

\* A slip of line 832: the spinner is raised whatever the trigger.
raisesLoading_always(isUserAction, cl) == TRUE

\* Line 832: the calls that raise the loading indicator.
raisesLoading(isUserAction, cl) == cl.isInitialLoad \/ isUserAction

\* Lines 826-897: fetchData up to its await: what it sets and the call it
\* leaves in flight, with its locals and the part of its closure it goes on
\* to read: the entries dataCache[cachedKey] (main) and
\* dataCache.productLinesList.  network is the set of sources a request was
\* sent for.  `logs` of the closure is only the value of a promise whose
\* result is never used.
fetchData(isUserAction, cl, currentTimestamp) ==
    IF ~cl.authToken \/ ~cl.userData
    THEN [setIsLoading |-> <<FALSE>>, setApiError |-> <<>>, issued |-> <<>>]
    ELSE LET main == shouldFetchMainData(isUserAction, cl, currentTimestamp)
             pl == shouldFetchProductLines(isUserAction, cl, currentTimestamp)
             lg == shouldFetchLogs(isUserAction)
         IN [setIsLoading |-> IF raisesLoading(isUserAction, cl)
                              THEN <<TRUE>> ELSE <<>>,
             setApiError |-> <<"null">>,
             issued |-> <<[cachedKey |-> cl.activeCollectionKey,
                           isUserAction |-> isUserAction,
                           isInitialLoad |-> cl.isInitialLoad,
                           currentTimestamp |-> currentTimestamp,
                           shouldFetchMainData |-> main,
                           shouldFetchProductLines |-> pl,
                           shouldFetchLogs |-> lg,
                           network |-> (IF main THEN {"main"} ELSE {})
                                       \cup (IF lg \/ cl.isInitialLoad THEN {"logs"} ELSE {})
                                       \cup (IF pl THEN {"productLines"} ELSE {}),
                           dataCache |-> [main |-> cl.dataCache[cl.activeCollectionKey],
                                         productLinesList |-> cl.dataCache["productLinesList"]]]>>]

\* A fetchData call whose three promises were all resolved from the cache:
\* its continuation is a microtask.
MicrotaskPending == \E i \in 1..Len(resyncs) : resyncs[i].network = {}

\* The calls suspended at an await on the network or on the user.
Pending ==
    Cardinality({i \in 1..Len(resyncs) : resyncs[i].network # {}}) + Len(mutations)
      + logoutPending + Len(deleteDialog) + (IF authPending THEN 1 ELSE 0)

\* The calls in `issued` may be added to those in flight.
Room(issued) ==
    \A i \in 1..Len(issued) : issued[i].network # {} => Pending < MaxPending

\* A handler of the user, of the network or of the clock may run.
Idle == ~effectPending /\ ~MicrotaskPending

\* Line 764: the record of the create form, newItemData, in the
\* specifications that do not look inside the form: a product line whose
\* required fields are filled in (the specification of the forms draws the
\* record from Forms instead). A value of the form is a record of its type
\* t, its text s and, for an array, its elements a.
newItemData ==
    [name |-> [t |-> "string", s |-> "Sensor A1", a |-> <<>>],
     product_line_manager |-> [t |-> "string", s |-> "Jane Doe", a |-> <<>>],
     attachments_raw |-> [t |-> "array", s |-> "", a |-> <<>>]]

LoggedIn == authToken /\ userData

Init ==
    /\ authToken \in BOOLEAN
    /\ userData = authToken
    /\ sessionStorage = [authToken |-> authToken, userData |-> userData]
    /\ isInitialLoad = TRUE
    /\ items = <<>>
    /\ allProductLines = <<>>
    /\ logs = <<>>
    /\ activeCollectionKey = "product_lines"
    /\ isLoading = FALSE
    /\ apiError = "null"
    /\ dataCache = InitialCache
    /\ isFormVisible = FALSE
    /\ isModalOpen = FALSE
    /\ deleteDialog = <<>>
    /\ authPending = FALSE
    /\ logoutPending = 0
    /\ resyncs = <<>>
    /\ mutations = <<>>
    /\ effectPending = TRUE
    /\ now = StartTime
    /\ ticks = 0
    /\ event = [op |-> "mount", calls |-> <<>>]
    /\ formRecord = newItemData
    /\ warning = <<>>
    /\ request = <<>>

\* ------------------------------------------------------------------ effect
\* Lines 946-961.
useEffect ==
    /\ effectPending
    /\ LET cachedKey == activeCollectionKey
           hit == Len(dataCache[cachedKey].data) > 0
           f == fetchData(~hit, Closure, now)
       IN /\ Room(f.issued)
          /\ isFormVisible' = FALSE
          /\ items' = IF hit THEN dataCache[cachedKey].data ELSE items
          /\ isLoading' = SetOr(f.setIsLoading, isLoading)
          /\ apiError' = SetOr(f.setApiError, apiError)
          /\ resyncs' = resyncs \o f.issued
          /\ event' = [op |-> "useEffect", calls |-> <<"fetchData">>]
    /\ effectPending' = FALSE
    /\ UNCHANGED <<authToken, userData, sessionStorage, isInitialLoad,
                   allProductLines, logs, activeCollectionKey, dataCache,
                   isModalOpen, deleteDialog, authPending, logoutPending,
                   mutations, now, ticks>>

\* The clock.
Tick ==
    /\ Idle
    /\ ticks < MaxTicks
    /\ \E d \in TickSteps : now' = now + d
    /\ ticks' = ticks + 1
    /\ event' = [op |-> "tick", calls |-> <<>>]
    /\ UNCHANGED <<authToken, userData, sessionStorage, isInitialLoad, items,
                   allProductLines, logs, activeCollectionKey, isLoading,
                   apiError, dataCache, isFormVisible,
                   isModalOpen, deleteDialog, authPending, logoutPending,
                   resyncs, mutations, effectPending>>

\* ------------------------------------------------------- fetchData, part 2
\* safeFetch, lines 848-861: the value its promise settles with and the
\* message it hands to setApiError.  A non-2xx answer and a rejected fetch()
\* throw inside the try block; `return response.json()` leaves it before a
\* body that does not parse rejects, so that rejection is the promise's own.
safeFetch(outcome, body, errorMessage) ==
    CASE outcome = "ok" ->
           [rejected |-> FALSE, value |-> body, error |-> <<>>]
      [] outcome = "http_error" ->
           [rejected |-> FALSE, value |-> <<>>, error |-> <<errorMessage>>]
      [] outcome = "auth_error" ->
           [rejected |-> FALSE, value |-> <<>>, error |-> <<"Invalid or expired token">>]
      [] outcome = "network_error" ->
           [rejected |-> FALSE, value |-> <<>>, error |-> <<"Failed to fetch">>]
      [] outcome = "malformed" ->
           [rejected |-> TRUE, value |-> <<>>, error |-> <<"Unexpected token">>]
      [] outcome = "pending" ->
           [rejected |-> FALSE, value |-> <<>>, error |-> <<>>]

\* Promise.resolve(...) of a source that is not fetched.
Resolved(value) == [rejected |-> FALSE, value |-> value, error |-> <<>>]

\* The three promises of one call, given what happens to its requests.
fetchPromises(r, oc, body) ==
    [main |-> IF r.shouldFetchMainData
              THEN safeFetch(oc["main"], body["main"], "Failed to fetch data.")
              ELSE Resolved(r.dataCache.main.data),
     logs |-> IF r.shouldFetchLogs \/ r.isInitialLoad
              THEN safeFetch(oc["logs"], body["logs"], "Failed to fetch Audit Logs.")
              ELSE Resolved(<<>>),
     productLines |-> IF r.shouldFetchProductLines
              THEN safeFetch(oc["productLines"], body["productLines"],
                             "Failed to fetch Product Lines data.")
              ELSE Resolved(r.dataCache.productLinesList.data)]

\* The test of the catch block, line 930.
SessionFailure(message) ==
    message \in {"Failed to fetch", "Invalid or expired token"}

LogBodies == {<<>>, <<[path |-> LOGS_API_PATH, rev |-> 1]>>}

BodiesOf(r, src) ==
    CASE src = "main" -> Bodies(apiPath(r.cachedKey))
      [] src = "logs" -> LogBodies
      [] src = "productLines" -> Bodies(apiPath("product_lines"))

\* A request of call r answered with 2xx and an array ("cached": no request
\* was made).
OkSourceAnswers(r, s) ==
    IF s \notin r.network
    THEN {[outcome |-> "cached", body |-> <<>>]}
    ELSE {[outcome |-> "ok", body |-> b] : b \in BodiesOf(r, s)}

\* What can have happened to one request of call r when its Promise.all
\* settles ("pending": nothing yet).
SourceAnswers(r, s) ==
    IF s \notin r.network
    THEN OkSourceAnswers(r, s)
    ELSE OkSourceAnswers(r, s)
           \cup {[outcome |-> o, body |-> <<>>] : o \in (Outcomes \ {"ok"}) \cup {"pending"}}

\* Promise.all settles when every promise is resolved, or as soon as one
\* rejects, whatever the others have done.
Answers(r) ==
    {a \in {[main |-> x, logs |-> y, productLines |-> z] :
               x \in SourceAnswers(r, "main"), y \in SourceAnswers(r, "logs"),
               z \in SourceAnswers(r, "productLines")} :
        (\E s \in Sources : a[s].outcome = "pending")
           => (\E s \in Sources : a[s].outcome = "malformed")}

\* Every request of the call is answered with 2xx and an array.
OkAnswers(r) ==
    {[main |-> x, logs |-> y, productLines |-> z] :
        x \in OkSourceAnswers(r, "main"), y \in OkSourceAnswers(r, "logs"),
        z \in OkSourceAnswers(r, "productLines")}

\* Lines 900-941: the continuation of `await Promise.all(fetchPromises)` of
\* the i-th call in flight, with the safeFetch continuations before it.
fetchDataSettle(i, a) ==
    LET r == resyncs[i]
        oc == [s \in Sources |-> a[s].outcome]
        body == [s \in Sources |-> a[s].body]
        p == fetchPromises(r, oc, body)
        rejected == {s \in Sources : p[s].rejected}
        failed == {s \in Sources : ~p[s].rejected /\ p[s].error # <<>>}
        fetchedItems == p["main"].value
        fetchedLogs == p["logs"].value
        fetchedProductLines == p["productLines"].value
        finalItems == IF Len(fetchedItems) > 0 THEN fetchedItems
                      ELSE r.dataCache.main.data
        finalProductLines == IF Len(fetchedProductLines) > 0
                             THEN fetchedProductLines
                             ELSE r.dataCache.productLinesList.data
        storeMain == r.shouldFetchMainData /\ Len(fetchedItems) > 0
        storePL == r.shouldFetchProductLines /\ Len(fetchedProductLines) > 0
        cache1 == IF storeMain
                  THEN [dataCache EXCEPT ![r.cachedKey] =
                          [data |-> fetchedItems, timestamp |-> r.currentTimestamp]]
                  ELSE dataCache
        cache2 == IF storePL
                  THEN [cache1 EXCEPT !["productLinesList"] =
                          [data |-> fetchedProductLines, timestamp |-> r.currentTimestamp]]
                  ELSE cache1
        setLogs == r.shouldFetchLogs \/ r.isInitialLoad
        done == r.isInitialLoad \/ r.isUserAction
    IN /\ Idle \/ r.network = {}
       /\ ~effectPending
       /\ resyncs' = RemoveAt(resyncs, i)
       /\ IF rejected = {}
          THEN /\ items' = finalItems
               /\ dataCache' = cache2
               /\ allProductLines' = finalProductLines
               /\ logs' = IF setLogs THEN fetchedLogs ELSE logs
               /\ \E e \in (IF failed = {} THEN {apiError}
                            ELSE {p[s].error[1] : s \in failed}) : apiError' = e
               /\ logoutPending' = logoutPending
               /\ effectPending' = (storeMain \/ storePL \/ setLogs
                                      \/ (done /\ isInitialLoad))
          ELSE /\ \E s \in rejected :
                    LET message == p[s].error[1]
                    IN IF SessionFailure(message)
                       THEN /\ logoutPending' = logoutPending + 1
                            /\ apiError' = "Session expired or API unreachable. Please log in again."
                       ELSE /\ logoutPending' = logoutPending
                            /\ apiError' = message
               /\ effectPending' = (done /\ isInitialLoad)
               /\ UNCHANGED <<items, dataCache, allProductLines, logs>>
       /\ isLoading' = IF done THEN FALSE ELSE isLoading
       /\ isInitialLoad' = IF done THEN FALSE ELSE isInitialLoad
       /\ event' = [op |-> "fetchData", key |-> r.cachedKey,
                    applied |-> (rejected = {}), calls |-> <<>>]
       /\ UNCHANGED <<authToken, userData, sessionStorage, activeCollectionKey,
                      isFormVisible, isModalOpen, deleteDialog,
                      authPending, mutations, now, ticks>>

Settle == \E i \in 1..Len(resyncs) : \E a \in Answers(resyncs[i]) : fetchDataSettle(i, a)

SettleOk == \E i \in 1..Len(resyncs) : \E a \in OkAnswers(resyncs[i]) : fetchDataSettle(i, a)

\* ------------------------------------------------------------ user, page
\* The page is rendered (lines 1684-1691) and neither the modal (a
\* full-screen overlay, line 499) nor the confirmation dialog covers it.
PageEnabled == Idle /\ LoggedIn /\ ~isModalOpen /\ deleteDialog = <<>>

\* Lines 1177-1182: a tab, disabled while isLoading (line 1710).
handleCollectionSwitch(key) ==
    /\ PageEnabled
    /\ ~isLoading
    /\ activeCollectionKey' = key
    /\ isFormVisible' = FALSE
    /\ effectPending' = (key # activeCollectionKey)
    /\ event' = [op |-> "handleCollectionSwitch", calls |-> <<>>]
    /\ UNCHANGED <<authToken, userData, sessionStorage, isInitialLoad, items,
                   allProductLines, logs, isLoading, apiError, dataCache,
                   isModalOpen, deleteDialog, authPending,
                   logoutPending, resyncs, mutations, now, ticks>>

\* Lines 1433-1436: the button that shows or collapses the form, disabled
\* while isLoading.
toggleForm ==
    /\ PageEnabled
    /\ ~isLoading
    /\ isFormVisible' = ~isFormVisible
    /\ event' = [op |-> "toggleForm", calls |-> <<>>]
    /\ UNCHANGED <<authToken, userData, sessionStorage, isInitialLoad, items,
                   allProductLines, logs, activeCollectionKey, isLoading,
                   apiError, dataCache, isModalOpen,
                   deleteDialog, authPending, logoutPending, resyncs,
                   mutations, effectPending, now, ticks>>

\* Lines 1165-1175 and the onClose of line 1730.
openModalForEdit ==
    /\ PageEnabled
    /\ ~isLoading
    /\ items # <<>>
    /\ isModalOpen' = TRUE
    /\ event' = [op |-> "openModalForEdit", calls |-> <<>>]
    /\ UNCHANGED <<authToken, userData, sessionStorage, isInitialLoad, items,
                   allProductLines, logs, activeCollectionKey, isLoading,
                   apiError, dataCache, isFormVisible,
                   deleteDialog, authPending, logoutPending, resyncs,
                   mutations, effectPending, now, ticks>>

onClose ==
    /\ Idle
    /\ LoggedIn
    /\ isModalOpen
    /\ isModalOpen' = FALSE
    /\ event' = [op |-> "onClose", calls |-> <<>>]
    /\ UNCHANGED <<authToken, userData, sessionStorage, isInitialLoad, items,
                   allProductLines, logs, activeCollectionKey, isLoading,
                   apiError, dataCache, isFormVisible,
                   deleteDialog, authPending, logoutPending, resyncs,
                   mutations, effectPending, now, ticks>>

\* ------------------------------------------------------------ handleRequest
\* Lines 966-1021: handleRequest up to `await fetch`, called with the
\* closure cl of the render its caller belongs to.
handleRequest(method, cl) ==
    IF ~cl.authToken
    THEN [setIsLoading |-> <<>>, setApiError |-> <<>>, sent |-> <<>>]
    ELSE [setIsLoading |-> <<TRUE>>, setApiError |-> <<"null">>,
          sent |-> <<[method |-> method, cl |-> cl]>>]

\* The state after handleRequest was called from a handler that sets
\* nothing else.
Request(method, cl) ==
    LET h == handleRequest(method, cl)
    IN /\ h.sent # <<>> => Pending < MaxPending
       /\ isLoading' = SetOr(h.setIsLoading, isLoading)
       /\ apiError' = SetOr(h.setApiError, apiError)
       /\ mutations' = mutations \o h.sent

\* Lines 1056-1113 with a form that passes the check of required fields;
\* the submit button is disabled while isLoading (line 1410).
handleCreate ==
    /\ PageEnabled
    /\ ~isLoading
    /\ isFormVisible
    /\ Request("POST", Closure)
    /\ event' = [op |-> "handleCreate", calls |-> <<>>]
    /\ UNCHANGED <<authToken, userData, sessionStorage, isInitialLoad, items,
                   allProductLines, logs, activeCollectionKey, dataCache,
                   isFormVisible, isModalOpen, deleteDialog,
                   authPending, logoutPending, resyncs, effectPending, now,
                   ticks>>

\* Lines 1115-1145, from the save button of the modal (disabled while
\* isLoading, line 558).
handleUpdate ==
    /\ Idle
    /\ LoggedIn
    /\ isModalOpen
    /\ ~isLoading
    /\ Request("PUT", Closure)
    /\ event' = [op |-> "handleUpdate", calls |-> <<>>]
    /\ UNCHANGED <<authToken, userData, sessionStorage, isInitialLoad, items,
                   allProductLines, logs, activeCollectionKey, dataCache,
                   isFormVisible, isModalOpen, deleteDialog,
                   authPending, logoutPending, resyncs, effectPending, now,
                   ticks>>

\* Lines 1147-1156: the delete button of a row (disabled while isLoading,
\* line 1552) opens the confirmation; its callback keeps this render's
\* handleRequest.
handleDelete ==
    /\ PageEnabled
    /\ ~isLoading
    /\ items # <<>>
    /\ Pending < MaxPending
    /\ deleteDialog' = <<Closure>>
    /\ event' = [op |-> "handleDelete", calls |-> <<>>]
    /\ UNCHANGED <<authToken, userData, sessionStorage, isInitialLoad, items,
                   allProductLines, logs, activeCollectionKey, isLoading,
                   apiError, dataCache, isFormVisible,
                   isModalOpen, authPending, logoutPending, resyncs,
                   mutations, effectPending, now, ticks>>

\* Lines 1156-1160: the user answers the confirmation.
handleDeleteConfirmed(isConfirmed) ==
    /\ Idle
    /\ deleteDialog # <<>>
    /\ deleteDialog' = <<>>
    /\ IF isConfirmed
       THEN LET h == handleRequest("DELETE", deleteDialog[1])
            IN /\ isLoading' = SetOr(h.setIsLoading, isLoading)
               /\ apiError' = SetOr(h.setApiError, apiError)
               /\ mutations' = mutations \o h.sent
       ELSE UNCHANGED <<isLoading, apiError, mutations>>
    /\ event' = [op |-> "handleDeleteConfirmed", calls |-> <<>>]
    /\ UNCHANGED <<authToken, userData, sessionStorage, isInitialLoad, items,
                   allProductLines, logs, activeCollectionKey, dataCache,
                   isFormVisible, isModalOpen, authPending,
                   logoutPending, resyncs, effectPending, now, ticks>>

\* What the server, or the network, does with the request of a mutation
\* (a 2xx answer is a success whatever its body, line 1023).
MutationOutcomes == {"ok", "http_error", "auth_error", "network_error"}

\* A slip of line 1049: the message is dropped.
requestError_silent(outcome) == "null"

\* Line 1025 and the rejection of fetch(): the message of the error thrown.
requestError(outcome) ==
    CASE outcome = "http_error" -> "API call failed."
      [] outcome = "auth_error" -> "Invalid or expired token"
      [] outcome = "network_error" -> "Failed to fetch"

\* Lines 1108-1111 and 1140-1143: the success callbacks of handleCreate and
\* handleUpdate (handleDelete passes none), as [isFormVisible, isModalOpen]
\* after the call.
successCallback(method) ==
    [isFormVisible |-> IF method = "POST" THEN FALSE ELSE isFormVisible,
     isModalOpen |-> IF method = "PUT" THEN FALSE ELSE isModalOpen]

\* A slip of lines 1036-1040: the cross-reference list is left alone.
invalidate_key(cache, key) == [cache EXCEPT ![key] = EmptyEntry]

\* Lines 1036-1040.
invalidate(cache, key) ==
    [cache EXCEPT ![key] = EmptyEntry, !["productLinesList"] = EmptyEntry]

\* Lines 1043 and 1044 exchanged.
successPath_resyncFirst == <<"fetchData", "successCallback">>

\* Lines 1043-1044: the calls of the success path, in order.
successPath == <<"successCallback", "fetchData">>

\* Lines 1023-1052: handleRequest from the answer to its request on.
handleRequestResume(i, outcome) ==
    LET m == mutations[i]
    IN /\ Idle
       /\ mutations' = RemoveAt(mutations, i)
       /\ IF outcome = "ok"
          THEN LET cb == successCallback(m.method)
                   f == fetchData(TRUE, m.cl, now)
               IN /\ dataCache' = invalidate(dataCache, m.cl.activeCollectionKey)
                  /\ isFormVisible' = cb.isFormVisible
                  /\ isModalOpen' = cb.isModalOpen
                  /\ resyncs' = resyncs \o f.issued
                  /\ apiError' = SetOr(f.setApiError, apiError)
                  /\ effectPending' = TRUE
                  /\ event' = [op |-> "handleRequest", method |-> m.method,
                               key |-> m.cl.activeCollectionKey,
                               result |-> outcome, thrown |-> FALSE,
                               calls |-> successPath]
          ELSE /\ apiError' = requestError(outcome)
               /\ event' = [op |-> "handleRequest", method |-> m.method,
                            key |-> m.cl.activeCollectionKey,
                            result |-> outcome, thrown |-> FALSE,
                            calls |-> <<>>]
               /\ UNCHANGED <<dataCache, isFormVisible,
                              isModalOpen, resyncs, effectPending>>
       /\ isLoading' = FALSE
       /\ UNCHANGED <<authToken, userData, sessionStorage, isInitialLoad,
                      items, allProductLines, logs, activeCollectionKey,
                      deleteDialog, authPending, logoutPending, now, ticks>>

\* ------------------------------------------------------------------ session
\* Lines 611-642 (LoginScreen.handleAuth): the login screen is rendered in
\* place of the page while no session is held.
handleAuth ==
    /\ Idle
    /\ ~LoggedIn
    /\ ~isLoading
    /\ ~authPending
    /\ Pending < MaxPending
    /\ authPending' = TRUE
    /\ isLoading' = TRUE
    /\ event' = [op |-> "handleAuth", calls |-> <<>>]
    /\ UNCHANGED <<authToken, userData, sessionStorage, isInitialLoad, items,
                   allProductLines, logs, activeCollectionKey, apiError,
                   dataCache, isFormVisible, isModalOpen,
                   deleteDialog, logoutPending, resyncs, mutations,
                   effectPending, now, ticks>>

handleAuthResume(ok) ==
    /\ Idle
    /\ authPending
    /\ authPending' = FALSE
    /\ isLoading' = FALSE
    /\ IF ok
       THEN /\ authToken' = TRUE
            /\ userData' = TRUE
            /\ sessionStorage' = [authToken |-> TRUE, userData |-> TRUE]
            /\ effectPending' = TRUE
       ELSE UNCHANGED <<authToken, userData, sessionStorage, effectPending>>
    /\ event' = [op |-> "handleAuth", calls |-> <<>>]
    /\ UNCHANGED <<isInitialLoad, items, allProductLines, logs,
                   activeCollectionKey, apiError, dataCache, isFormVisible, isModalOpen, deleteDialog, logoutPending,
                   resyncs, mutations, now, ticks>>

\* Lines 795-808: the logout button of the header, up to the await.
handleLogout ==
    /\ PageEnabled
    /\ Pending < MaxPending
    /\ logoutPending' = logoutPending + 1
    /\ event' = [op |-> "handleLogout", calls |-> <<>>]
    /\ UNCHANGED <<authToken, userData, sessionStorage, isInitialLoad, items,
                   allProductLines, logs, activeCollectionKey, isLoading,
                   apiError, dataCache, isFormVisible,
                   isModalOpen, deleteDialog, authPending, resyncs,
                   mutations, effectPending, now, ticks>>

\* A slip of lines 812-813: the session is left in the tab's storage.
handleLogoutResume_keepsStorage ==
    /\ Idle
    /\ logoutPending > 0
    /\ logoutPending' = logoutPending - 1
    /\ authToken' = FALSE
    /\ userData' = FALSE
    /\ items' = <<>>
    /\ logs' = <<>>
    /\ dataCache' = InitialCache
    /\ effectPending' = TRUE
    /\ event' = [op |-> "handleLogout", calls |-> <<>>]
    /\ UNCHANGED <<sessionStorage, isInitialLoad, allProductLines,
                   activeCollectionKey, isLoading, apiError, isFormVisible,
                   isModalOpen, deleteDialog, authPending, resyncs,
                   mutations, now, ticks>>

\* Lines 810-821: handleLogout after the logout request, whatever its fate.
handleLogoutResume ==
    /\ Idle
    /\ logoutPending > 0
    /\ logoutPending' = logoutPending - 1
    /\ authToken' = FALSE
    /\ userData' = FALSE
    /\ sessionStorage' = [authToken |-> FALSE, userData |-> FALSE]
    /\ items' = <<>>
    /\ logs' = <<>>
    /\ dataCache' = InitialCache
    /\ effectPending' = TRUE
    /\ event' = [op |-> "handleLogout", calls |-> <<>>]
    /\ UNCHANGED <<isInitialLoad, allProductLines, activeCollectionKey,
                   isLoading, apiError, isFormVisible,
                   isModalOpen, deleteDialog, authPending, resyncs,
                   mutations, now, ticks>>

\* ------------------------------------------------------------------- forms
\* A JavaScript value: its type t, its text s (of a string, a number or a
\* File) and its elements a (of an array).
Str(text) == [t |-> "string", s |-> text, a |-> <<>>]

Num(text) == [t |-> "number", s |-> text, a |-> <<>>]

File(name) == [t |-> "File", s |-> name, a |-> <<>>]

Arr(elements) == [t |-> "array", s |-> "", a |-> elements]

Null == [t |-> "null", s |-> "", a |-> <<>>]

Undefined == [t |-> "undefined", s |-> "", a |-> <<>>]

\* record[key]
Get(record, key) == IF key \in DOMAIN record THEN record[key] ELSE Undefined

\* !!value
Truthy(value) ==
    CASE value.t = "string" -> value.s # ""
      [] value.t = "number" -> value.s \notin {"0", "NaN"}
      [] value.t \in {"null", "undefined"} -> FALSE
      [] OTHER -> TRUE

\* parseFloat(value), for the texts the forms of this model hold.
parseFloat(value) ==
    CASE value.t = "number" -> value
      [] value.t = "string" /\ value.s \in {"35.5", "12.5", "7", "0"} -> Num(value.s)
      [] OTHER -> Num("NaN")

\* String(value), as FormData.append makes it.
StringOf(value) ==
    CASE value.t = "number" -> Str(value.s)
      [] value.t = "undefined" -> Str("undefined")
      [] OTHER -> value

\* Line 9.
EXCLUDED_INTERNAL_COLUMNS ==
    {"created_at", "created_by", "updated_at", "updated_by", "password_hash",
     "product_line_id"}

\* Lines 19 and 29: initialCollections[key].fields.
fields(key) ==
    IF key = "products"
    THEN {"id", "product_name", "product_line", "description", "product_definition",
          "operating_environment", "technical_parameters", "machines_and_tooling",
          "manufacturing_strategy", "purchasing_strategy", "prototypes_ppap_and_sop",
          "engineering_and_testing", "capacity", "our_advantages", "gmdc_pct",
          "product_line_id", "customers_in_production", "customer_in_development",
          "level_of_interest_and_why", "estimated_price_per_product",
          "prod_if_customer_in_china", "costing_data", "product_pictures"}
           \cup EXCLUDED_INTERNAL_COLUMNS
    ELSE {"id", "name", "type_of_products", "manufacturing_locations", "design_center",
          "product_line_manager", "history", "type_of_customers", "metiers",
          "strength", "weakness", "perspectives", "compliance_resource_id",
          "attachments_raw"}
           \cup EXCLUDED_INTERNAL_COLUMNS

\* Lines 21 and 31: initialCollections[key].requiredFields.
requiredFields(key) ==
    IF key = "products" THEN <<"product_name", "product_line">>
    ELSE <<"name", "product_line_manager">>

\* Lines 78-87, over the field names of lines 19 and 29: the names that
\* hold one of the substrings of line 79 are the textareas.
getFieldType(field) ==
    CASE field \in {"description", "product_definition", "operating_environment",
                    "technical_parameters", "machines_and_tooling",
                    "manufacturing_strategy", "purchasing_strategy",
                    "prototypes_ppap_and_sop", "engineering_and_testing",
                    "capacity", "our_advantages", "customers_in_production",
                    "costing_data", "type_of_products", "manufacturing_locations",
                    "design_center", "history", "type_of_customers", "metiers",
                    "strength", "weakness", "perspectives"} -> "textarea"
      [] field \in {"gmdc_pct", "estimated_price_per_product"} -> "number"
      [] field = "prod_if_customer_in_china" -> "checkbox"
      [] field = "product_pictures" -> "file_image"
      [] field = "attachments_raw" -> "file_attachment"
      [] OTHER -> "text"

\* getFieldType(field).includes('file')
isFileType(field) == getFieldType(field) \in {"file_image", "file_attachment"}

\* Lines 1059-1069: one field of the required check of handleCreate.
createFieldPresent(record, key, field) ==
    IF key = "products" /\ field = "prod_if_customer_in_china" THEN TRUE
    ELSE IF isFileType(field)
         THEN Get(record, field).t = "array" /\ Len(Get(record, field).a) > 0
         ELSE Truthy(Get(record, field))

\* Lines 1072-1077: one field of the filter that names the missing fields.
createFieldMissing(record, key, field) ==
    IF key = "products" /\ field = "prod_if_customer_in_china" THEN FALSE
    ELSE IF isFileType(field)
         THEN Get(record, field).t = "array" /\ Len(Get(record, field).a) = 0
         ELSE ~Truthy(Get(record, field))

\* Lines 206-212 and 215-218: the same two tests in DetailModal.handleSubmit.
submitFieldPresent(record, key, field) ==
    IF isFileType(field)
    THEN Get(record, field).t = "array" /\ Len(Get(record, field).a) > 0
    ELSE Truthy(Get(record, field))

submitFieldMissing(record, key, field) ==
    IF isFileType(field)
    THEN Get(record, field).t = "array" /\ Len(Get(record, field).a) = 0
    ELSE ~Truthy(Get(record, field))

\* Lines 1059-1069 and 206-212: requiredFields.every(...).
createRequiredCheck(record, key) ==
    \A i \in 1..Len(requiredFields(key)) :
        createFieldPresent(record, key, requiredFields(key)[i])

submitRequiredCheck(record, key) ==
    \A i \in 1..Len(requiredFields(key)) :
        submitFieldPresent(record, key, requiredFields(key)[i])

\* A slip of the filter of line 1072: only the first missing field is named.
createMissingFields_first(record, key) ==
    LET all == SelectSeq(requiredFields(key),
                         LAMBDA f : createFieldMissing(record, key, f))
    IN SubSeq(all, 1, IF Len(all) > 0 THEN 1 ELSE 0)

\* Lines 1072-1077 and 215-218: requiredFields.filter(...), the names that
\* are joined into the message.
createMissingFields(record, key) ==
    SelectSeq(requiredFields(key), LAMBDA f : createFieldMissing(record, key, f))

submitMissingFields(record, key) ==
    SelectSeq(requiredFields(key), LAMBDA f : submitFieldMissing(record, key, f))

\* A slip of lines 1083 and 1117: the server's columns are not filtered out.
allowedFields_all(key) == fields(key)

\* Lines 1083 and 1117.
allowedFields(key) == fields(key) \ EXCLUDED_INTERNAL_COLUMNS

\* Lines 1088-1098 and 1122-1132: the value a key of the payload gets.
payloadValue(k, value) ==
    IF isFileType(k) THEN (IF value.t = "array" THEN value ELSE Arr(<<>>))
    ELSE IF k \in {"gmdc_pct", "estimated_price"} THEN parseFloat(value)
    ELSE value

\* Lines 1079-1102: finalPayload of handleCreate, `delete finalPayload.id`
\* included.
createPayload(record, key) ==
    [k \in ((DOMAIN record) \cap allowedFields(key)) \ {"id"} |->
        payloadValue(k, record[k])]

\* Lines 1117-1134: finalPayload of handleUpdate.
updatePayload(record, key) ==
    [k \in (DOMAIN record) \cap allowedFields(key) |-> payloadValue(k, record[k])]

\* Lines 971 and 1002.
fileFields == {"attachments_raw", "product_pictures"}

\* f instanceof File
isLocal(entry) == entry.t = "File"

\* typeof f === 'string' && f.startsWith('uploads/'), for the texts the
\* forms of this model hold.
isRemote(entry) == entry.t = "string" /\ entry.s \in {"uploads/a.png", "uploads/b.png"}

\* A slip of line 973: only the first of the two file fields is looked at.
hasFile_first(body) ==
    /\ "attachments_raw" \in DOMAIN body
    /\ body["attachments_raw"].t = "array"
    /\ \E i \in 1..Len(body["attachments_raw"].a) : isLocal(body["attachments_raw"].a[i])

\* Line 973.
hasFile(body) ==
    \E field \in fileFields \cap DOMAIN body :
        /\ body[field].t = "array"
        /\ \E i \in 1..Len(body[field].a) : isLocal(body[field].a[i])

\* A slip of lines 982-989: the kept paths are appended last to first.
retainedPaths_reversed(body, k) ==
    [i \in 1..Len(SelectSeq(body[k].a, isRemote)) |->
        SelectSeq(body[k].a, isRemote)[Len(SelectSeq(body[k].a, isRemote)) + 1 - i]]

\* Lines 982-989: the values appended under `${key}_retained`, in the order
\* of the forEach.
retainedPaths(body, k) == SelectSeq(body[k].a, isRemote)

\* Lines 982-985: the files appended under the key, in the order of the
\* forEach.
binaryParts(body, k) == SelectSeq(body[k].a, isLocal)

\* Lines 979-996: the parts of the FormData, each with the name it is
\* appended under (the key, or the key with the suffix _retained).
formData(body) ==
    UNION {
        IF k \in fileFields /\ body[k].t = "array"
        THEN {[name |-> k, retained |-> FALSE, value |-> binaryParts(body, k)[i]] :
                 i \in 1..Len(binaryParts(body, k))}
             \cup
             {[name |-> k, retained |-> TRUE, value |-> retainedPaths(body, k)[i]] :
                 i \in 1..Len(retainedPaths(body, k))}
        ELSE IF k \notin fileFields /\ body[k].t # "null" /\ k # "id"
             THEN {[name |-> k, retained |-> FALSE, value |-> StringOf(body[k])]}
             ELSE {} : k \in DOMAIN body}

\* Lines 982-989 and 1005-1007: what the request carries for each
\* attachment field, as the sequence of kept paths and the sequence of
\* files (a JSON request carries no file).
attachmentsSent(body) ==
    [k \in {x \in fileFields \cap DOMAIN body : body[x].t = "array"} |->
        IF hasFile(body)
        THEN [retained |-> retainedPaths(body, k), files |-> binaryParts(body, k)]
        ELSE [retained |-> SelectSeq(body[k].a, isRemote), files |-> <<>>]]

\* Lines 1003-1013: the members of the JSON body as JSON.stringify writes
\* them (NaN as null, no member for undefined).
jsonBody(body) ==
    {[name |-> k, retained |-> FALSE,
      value |-> IF k \in fileFields /\ body[k].t = "array"
                THEN Arr(SelectSeq(body[k].a, isRemote))
                ELSE IF body[k] = Num("NaN") THEN Null ELSE body[k]] :
        k \in {x \in (DOMAIN body) \ {"id"} : body[x].t # "undefined"}}

\* Lines 971-1021: the request handleRequest sends for a body.
encodeRequest(method, body) ==
    [method |-> method,
     encoding |-> IF hasFile(body) THEN "multipart" ELSE "json",
     parts |-> IF hasFile(body) THEN formData(body) ELSE jsonBody(body),
     attachments |-> attachmentsSent(body)]

\* The records a form can hold when it is submitted: any of the keys may
\* be missing, and a key holds one of these values.
FormValues(k) ==
    CASE k = "id" -> {Num("7")}
      [] k \in {"product_name", "name"} -> {Str(""), Str("Sensor A1")}
      [] k \in {"product_line", "product_line_manager"} -> {Str(""), Str("Jane Doe")}
      [] k = "gmdc_pct" -> {Num("35.5"), Str("35.5")}
      [] k = "estimated_price_per_product" -> {Str("12.5")}
      [] k \in fileFields ->
           {Arr(<<>>), Arr(<<File("new.png")>>), Arr(<<Str("uploads/a.png")>>),
            Arr(<<Str("uploads/a.png"), File("new.png")>>),
            Arr(<<Str("uploads/b.png"), File("new.png"), Str("uploads/a.png")>>)}
      [] k = "created_at" -> {Str("2024-01-01")}

FormOptions(k) == FormValues(k) \cup {Undefined}

\* The record without the keys that hold nothing.
FormOf(f) == [k \in {x \in DOMAIN f : f[x] # Undefined} |-> f[k]]

Forms(key) ==
    IF key = "products"
    THEN {FormOf([id |-> a, product_name |-> b, product_line |-> c, gmdc_pct |-> d,
                  estimated_price_per_product |-> e, product_pictures |-> f,
                  created_at |-> g]) :
             a \in FormOptions("id"), b \in FormOptions("product_name"),
             c \in FormOptions("product_line"), d \in FormOptions("gmdc_pct"),
             e \in FormOptions("estimated_price_per_product"),
             f \in FormOptions("product_pictures"), g \in FormOptions("created_at")}
    ELSE {FormOf([id |-> a, name |-> b, product_line_manager |-> c,
                  attachments_raw |-> f, created_at |-> g]) :
             a \in FormOptions("id"), b \in FormOptions("name"),
             c \in FormOptions("product_line_manager"),
             f \in FormOptions("attachments_raw"), g \in FormOptions("created_at")}

\* Lines 1056-1113: handleCreate with the record the form holds, down to
\* the request of handleRequest.
handleCreateRecord ==
    /\ PageEnabled
    /\ ~isLoading
    /\ isFormVisible
    /\ IF createRequiredCheck(formRecord, activeCollectionKey)
       THEN /\ Request("POST", Closure)
            /\ request' = <<encodeRequest("POST", createPayload(formRecord, activeCollectionKey))>>
            /\ warning' = warning
       ELSE /\ apiError' = "Missing required fields"
            /\ warning' = createMissingFields(formRecord, activeCollectionKey)
            /\ UNCHANGED <<isLoading, mutations, request>>
    /\ event' = [op |-> "handleCreate", calls |-> <<>>]
    /\ UNCHANGED <<authToken, userData, sessionStorage, isInitialLoad, items,
                   allProductLines, logs, activeCollectionKey, dataCache,
                   isFormVisible, isModalOpen, deleteDialog,
                   authPending, logoutPending, resyncs, effectPending, now,
                   ticks, formRecord>>

\* Lines 203-223 and 1115-1145: handleSubmit of the modal with the record
\* it holds, then handleUpdate, down to the request of handleRequest.
handleSubmit ==
    /\ Idle
    /\ LoggedIn
    /\ isModalOpen
    /\ ~isLoading
    /\ IF submitRequiredCheck(formRecord, activeCollectionKey)
       THEN /\ Request("PUT", Closure)
            /\ request' = <<encodeRequest("PUT", updatePayload(formRecord, activeCollectionKey))>>
            /\ warning' = warning
       ELSE /\ warning' = submitMissingFields(formRecord, activeCollectionKey)
            /\ UNCHANGED <<isLoading, apiError, mutations, request>>
    /\ event' = [op |-> "handleSubmit", calls |-> <<>>]
    /\ UNCHANGED <<authToken, userData, sessionStorage, isInitialLoad, items,
                   allProductLines, logs, activeCollectionKey, dataCache,
                   isFormVisible, isModalOpen, deleteDialog,
                   authPending, logoutPending, resyncs, effectPending, now,
                   ticks, formRecord>>

\* ----------------------------------------------------------- specifications
\* The whole page with a server that answers every read with 2xx (and any
\* array) and any write with any outcome, over a time that is short against
\* the TTL.
Next ==
  /\ UNCHANGED formVars
  /\
    \/ useEffect
    \/ SettleOk
    \/ \E key \in collectionKeys : handleCollectionSwitch(key)
    \/ toggleForm
    \/ openModalForEdit
    \/ onClose
    \/ handleCreate
    \/ handleUpdate
    \/ handleDelete
    \/ \E isConfirmed \in BOOLEAN : handleDeleteConfirmed(isConfirmed)
    \/ \E i \in 1..Len(mutations) : \E o \in MutationOutcomes : handleRequestResume(i, o)
    \/ handleAuth
    \/ \E ok \in BOOLEAN : handleAuthResume(ok)
    \/ handleLogout
    \/ handleLogoutResume

Spec == Init /\ [][Next]_vars

\* The fetch coordinator while the clock advances: the tabs, the effect and
\* reads that are answered with 2xx.
NextClock ==
  /\ UNCHANGED formVars
  /\
    \/ useEffect
    \/ Tick
    \/ SettleOk
    \/ \E key \in collectionKeys : handleCollectionSwitch(key)
    \/ handleAuth
    \/ \E ok \in BOOLEAN : handleAuthResume(ok)

SpecClock == Init /\ [][NextClock]_vars

\* The fetch coordinator with reads that fail in every way.
NextFaults ==
  /\ UNCHANGED formVars
  /\
    \/ useEffect
    \/ Settle
    \/ \E key \in collectionKeys : handleCollectionSwitch(key)
    \/ handleAuth
    \/ \E ok \in BOOLEAN : handleAuthResume(ok)

SpecFaults == Init /\ [][NextFaults]_vars

\* The same page with its scheduling: React runs an effect whose
\* dependencies changed after the render (lines 946-961), a request that
\* was sent is answered or fails, and the continuation of its await then
\* runs. The user is under no obligation to do anything.
SpecLive ==
    /\ Init
    /\ [][NextFaults]_vars
    /\ WF_vars(useEffect /\ UNCHANGED formVars)
    /\ WF_vars(Settle /\ UNCHANGED formVars)
    /\ WF_vars((\E ok \in BOOLEAN : handleAuthResume(ok)) /\ UNCHANGED formVars)

\* The forms: a page that has loaded, with the create form or the modal
\* open on any record, and the submission of that record.
InitForm ==
    /\ authToken = TRUE
    /\ userData = TRUE
    /\ sessionStorage = [authToken |-> TRUE, userData |-> TRUE]
    /\ isInitialLoad = FALSE
    /\ items = <<>>
    /\ allProductLines = <<>>
    /\ logs = <<>>
    /\ activeCollectionKey \in collectionKeys
    /\ isLoading = FALSE
    /\ apiError = "null"
    /\ dataCache = InitialCache
    /\ isModalOpen \in BOOLEAN
    /\ isFormVisible = ~isModalOpen
    /\ deleteDialog = <<>>
    /\ authPending = FALSE
    /\ logoutPending = 0
    /\ resyncs = <<>>
    /\ mutations = <<>>
    /\ effectPending = FALSE
    /\ now = StartTime
    /\ ticks = 0
    /\ event = [op |-> "mount", calls |-> <<>>]
    /\ formRecord \in Forms(activeCollectionKey)
    /\ warning = <<>>
    /\ request = <<>>

NextForm ==
    \/ handleCreateRecord
    \/ handleSubmit

SpecForm == InitForm /\ [][NextForm]_vars

\* ------------------------------------------------- attachments of the modal

\* Lines 188 and 302: the server paths a field of the modal's form holds.
existingPaths(record, field) == SelectSeq(Get(record, field).a, isRemote)

\* Line 303: the new files a field of the modal's form holds.
newFiles(record, field) == SelectSeq(Get(record, field).a, isLocal)

\* A slip of lines 191-197: the selection replaces the whole field.
fileChangeResult_replace(record, field, files) == SelectSeq(files, isLocal)

\* Lines 187-197: the field after handleFileChange(field, files) with an
\* array of files.
fileChangeResult(record, field, files) ==
    existingPaths(record, field) \o SelectSeq(files, isLocal)

\* A slip of lines 378-391: the index is taken in the whole field.
removeFileResult_whole(record, field, indexToRemove, isNewFile) ==
    RemoveAt(Get(record, field).a, indexToRemove + 1)

\* Lines 378-391: the field after handleRemoveFile(indexToRemove, isNewFile);
\* filter((_, index) => index !== indexToRemove) counts from 0.
removeFileResult(record, field, indexToRemove, isNewFile) ==
    IF isNewFile
    THEN existingPaths(record, field)
            \o RemoveAt(newFiles(record, field), indexToRemove + 1)
    ELSE RemoveAt(existingPaths(record, field), indexToRemove + 1)
            \o newFiles(record, field)

\* Lines 85-86 and 19, 29: the attachment field of a collection.
fileField(key) == IF key = "products" THEN "product_pictures" ELSE "attachments_raw"

\* What a file dialog returns: the files the user picked, none if the
\* dialog was cancelled.
Selections ==
    {<<>>, <<File("c.png")>>, <<File("d.png")>>, <<File("c.png"), File("d.png")>>}

\* Lines 164-176: the records the modal opens on, a saved record whose
\* attachment field holds the paths the server returned.
ServerPaths ==
    {Arr(<<>>), Arr(<<Str("uploads/a.png")>>),
     Arr(<<Str("uploads/a.png"), Str("uploads/b.png")>>),
     Arr(<<Str("uploads/b.png"), Str("uploads/a.png")>>)}

ModalForms(key) ==
    IF key = "products"
    THEN {[id |-> Num("7"), product_name |-> Str("Sensor A1"),
           product_line |-> Str("Jane Doe"), product_pictures |-> paths] :
             paths \in ServerPaths}
    ELSE {[id |-> Num("7"), name |-> Str("Sensor A1"),
           product_line_manager |-> Str("Jane Doe"), attachments_raw |-> paths] :
             paths \in ServerPaths}

\* Lines 310-314 and 186-201: a selection in the file input of the modal.
handleFileSelect(files) ==
    /\ LoggedIn
    /\ isModalOpen
    /\ ~isLoading
    /\ formRecord' = [formRecord EXCEPT ![fileField(activeCollectionKey)] =
                         Arr(fileChangeResult(formRecord, fileField(activeCollectionKey), files))]
    /\ event' = [op |-> "handleFileChange", files |-> files, calls |-> <<>>]
    /\ UNCHANGED <<authToken, userData, sessionStorage, isInitialLoad, items,
                   allProductLines, logs, activeCollectionKey, isLoading, apiError,
                   dataCache, isFormVisible, isModalOpen, deleteDialog,
                   authPending, logoutPending, resyncs, mutations, effectPending,
                   now, ticks, warning, request>>

\* Lines 378-392, 427 and 448: a click on the remove button of an entry of
\* one of the two lists that are shown.
handleRemoveFile(indexToRemove, isNewFile) ==
    /\ LoggedIn
    /\ isModalOpen
    /\ indexToRemove + 1 \in
          1..Len(IF isNewFile THEN newFiles(formRecord, fileField(activeCollectionKey))
                 ELSE existingPaths(formRecord, fileField(activeCollectionKey)))
    /\ formRecord' = [formRecord EXCEPT ![fileField(activeCollectionKey)] =
                         Arr(removeFileResult(formRecord, fileField(activeCollectionKey),
                                              indexToRemove, isNewFile))]
    /\ event' = [op |-> "handleRemoveFile", index |-> indexToRemove,
                 isNewFile |-> isNewFile, calls |-> <<>>]
    /\ UNCHANGED <<authToken, userData, sessionStorage, isInitialLoad, items,
                   allProductLines, logs, activeCollectionKey, isLoading, apiError,
                   dataCache, isFormVisible, isModalOpen, deleteDialog,
                   authPending, logoutPending, resyncs, mutations, effectPending,
                   now, ticks, warning, request>>

\* The modal open on a saved record, and the editing of its attachments.
InitFiles ==
    /\ authToken = TRUE
    /\ userData = TRUE
    /\ sessionStorage = [authToken |-> TRUE, userData |-> TRUE]
    /\ isInitialLoad = FALSE
    /\ items = <<>>
    /\ allProductLines = <<>>
    /\ logs = <<>>
    /\ activeCollectionKey \in collectionKeys
    /\ isLoading = FALSE
    /\ apiError = "null"
    /\ dataCache = InitialCache
    /\ isModalOpen = TRUE
    /\ isFormVisible = FALSE
    /\ deleteDialog = <<>>
    /\ authPending = FALSE
    /\ logoutPending = 0
    /\ resyncs = <<>>
    /\ mutations = <<>>
    /\ effectPending = FALSE
    /\ now = StartTime
    /\ ticks = 0
    /\ event = [op |-> "mount", calls |-> <<>>]
    /\ formRecord \in ModalForms(activeCollectionKey)
    /\ warning = <<>>
    /\ request = <<>>

NextFiles ==
    \/ \E files \in Selections : handleFileSelect(files)
    \/ \E indexToRemove \in 0..3, isNewFile \in BOOLEAN :
          handleRemoveFile(indexToRemove, isNewFile)

SpecFiles == InitFiles /\ [][NextFiles]_vars

\* ------------------------------------------------------------------ claims
\* C1 as the spec states it: a resync that no user action triggered treats
\* the entry of a cache key as fresh, and sends no request for it, if and
\* only if now - timestamp < 300000; an entry of age 300000 is refetched.
C1_FreshIffYoungerThanTTL ==
    \A i \in 1..Len(resyncs) :
        LET r == resyncs[i]
        IN ~r.isUserAction =>
             /\ "main" \notin r.network
                  <=> r.currentTimestamp - r.dataCache.main.timestamp < cacheTTL
             /\ "productLines" \notin r.network
                  <=> r.currentTimestamp - r.dataCache.productLinesList.timestamp < cacheTTL

\* C1 amended: a resync that no user action triggered treats the entry of a
\* cache key as fresh, and sends no request for it, if and only if
\* now - timestamp <= 300000; an entry of age 300000 is still fresh.
C1_FreshIffNotOlderThanTTL ==
    \A i \in 1..Len(resyncs) :
        LET r == resyncs[i]
        IN ~r.isUserAction =>
             /\ "main" \notin r.network
                  <=> r.currentTimestamp - r.dataCache.main.timestamp <= cacheTTL
             /\ "productLines" \notin r.network
                  <=> r.currentTimestamp - r.dataCache.productLinesList.timestamp <= cacheTTL

\* A background resync that found the entry of the active key at the age of
\* exactly one TTL and sent no request for it.
C1_Witness ==
    \E i \in 1..Len(resyncs) :
        /\ ~resyncs[i].isUserAction
        /\ resyncs[i].dataCache.main.data # <<>>
        /\ resyncs[i].currentTimestamp - resyncs[i].dataCache.main.timestamp = cacheTTL
        /\ "main" \notin resyncs[i].network

\* C2: once a non-empty answer was stored for "products" at time t, a
\* background resync at t and at t + 299999 sends no request for the
\* collection, and one at t + 300001 sends a request for it.
C2_ProductsFreshThenStale ==
    \A i \in 1..Len(resyncs) :
        LET r == resyncs[i]
            age == r.currentTimestamp - r.dataCache.main.timestamp
        IN (r.cachedKey = "products" /\ ~r.isUserAction /\ r.dataCache.main.data # <<>>) =>
             /\ age \in {0, cacheTTL - 1} => "main" \notin r.network
             /\ age = cacheTTL + 1 => "main" \in r.network

\* A background resync of "products" 300001 ms after the store, with a
\* request for the collection in flight.
C2_Witness ==
    \E i \in 1..Len(resyncs) :
        /\ resyncs[i].cachedKey = "products"
        /\ ~resyncs[i].isUserAction
        /\ resyncs[i].dataCache.main.data # <<>>
        /\ resyncs[i].currentTimestamp - resyncs[i].dataCache.main.timestamp = cacheTTL + 1
        /\ "main" \in resyncs[i].network

\* C3: every resync sends a request for a source exactly when that source
\* is needed, each source by its own rule: the collection iff a user action
\* triggered the resync or the entry of the active key is stale, the
\* cross-reference list iff a user action triggered it or the entry
\* productLinesList is stale, the audit log iff a user action triggered it
\* or it is the initial load; a source that is not needed is read from the
\* entry the call found and no request is sent for it.
C3_NeedPerSource ==
    \A i \in 1..Len(resyncs) :
        LET r == resyncs[i]
            a == CHOOSE x \in OkAnswers(r) : TRUE
            p == fetchPromises(r, [s \in Sources |-> a[s].outcome],
                               [s \in Sources |-> a[s].body])
        IN /\ "main" \in r.network
                <=> (r.isUserAction
                       \/ r.currentTimestamp - r.dataCache.main.timestamp > cacheTTL)
           /\ "productLines" \in r.network
                <=> (r.isUserAction
                       \/ r.currentTimestamp - r.dataCache.productLinesList.timestamp > cacheTTL)
           /\ "logs" \in r.network <=> (r.isUserAction \/ r.isInitialLoad)
           /\ "main" \notin r.network => p["main"] = Resolved(r.dataCache.main.data)
           /\ "productLines" \notin r.network
                => p["productLines"] = Resolved(r.dataCache.productLinesList.data)

\* A background resync that fetches the cross-reference list, whose entry is
\* stale, and nothing else: the entry of the active key is fresh.
C3_Witness ==
    \E i \in 1..Len(resyncs) :
        /\ ~resyncs[i].isUserAction
        /\ resyncs[i].network = {"productLines"}
        /\ resyncs[i].dataCache.main.data # <<>>

\* C4: when one request of a resync fails, by a non-2xx answer, a network
\* failure or a body that does not parse, while the others are answered with
\* 2xx, the resync is not aborted: it sets an error message, the failed
\* source counts as empty, and every non-empty answer of the other requests
\* is applied to the view and, for the two cached sources, to the cache.
C4_FailureIsolated ==
    [][\A i \in 1..Len(resyncs) : \A a \in Answers(resyncs[i]) :
          \A s \in resyncs[i].network :
             ( /\ fetchDataSettle(i, a)
               /\ a[s].outcome \in Outcomes \ {"ok"}
               /\ \A t \in Sources \ {s} : a[t].outcome \in {"ok", "cached"} )
             => /\ apiError' # "null"
                /\ event'.applied
                /\ (a["main"].outcome = "ok" /\ a["main"].body # <<>>)
                     => /\ items' = a["main"].body
                        /\ dataCache'[resyncs[i].cachedKey].data = a["main"].body
                /\ (a["productLines"].outcome = "ok" /\ a["productLines"].body # <<>>)
                     => /\ allProductLines' = a["productLines"].body
                        /\ dataCache'["productLinesList"].data = a["productLines"].body
                /\ a["logs"].outcome = "ok" => logs' = a["logs"].body
      ]_vars

\* C5: when a request of a resync is answered non-2xx with the message
\* 'Invalid or expired token', the resync calls handleLogout and sets the
\* session-expired message, and applies nothing of the other answers.
C5_AuthRejectionLogsOut ==
    [][\A i \in 1..Len(resyncs) : \A a \in Answers(resyncs[i]) :
          ( /\ fetchDataSettle(i, a)
            /\ \E s \in resyncs[i].network : a[s].outcome = "auth_error" )
          => /\ logoutPending' = logoutPending + 1
             /\ apiError' = "Session expired or API unreachable. Please log in again."
             /\ ~event'.applied
      ]_vars

\* C6: the continuation of a resync applies its result to the view only if
\* the collection that is active when it runs is the one the resync was
\* issued for.
C6_AppliedOnlyToItsKey ==
    (event.op = "fetchData" /\ event.applied) => event.key = activeCollectionKey

\* C7: no two mutation requests for the same collection key are in flight at
\* the same time.
C7_OneMutationPerKey ==
    \A i, j \in 1..Len(mutations) :
        i # j => mutations[i].cl.activeCollectionKey # mutations[j].cl.activeCollectionKey

\* C8: right after the request of a mutation returned success, the cache
\* entry of the collection key that was active when the mutation was
\* requested (the collection it wrote to) and the entry productLinesList are
\* both empty with timestamp 0.
C8_SuccessInvalidates ==
    (event.op = "handleRequest" /\ event.result = "ok")
      => /\ dataCache[event.key] = [data |-> <<>>, timestamp |-> 0]
         /\ dataCache["productLinesList"] = [data |-> <<>>, timestamp |-> 0]

\* A mutation of a collection whose records were on the screen has just
\* succeeded while the other collection keeps its cache entry.
C8_Witness ==
    /\ event.op = "handleRequest"
    /\ event.result = "ok"
    /\ items # <<>>
    /\ dataCache[event.key].data = <<>>
    /\ \E k \in collectionKeys : dataCache[k].data # <<>>

\* C9 as the spec states it: on the success of a mutation the resync is
\* issued before the success callback runs.
C9_ResyncBeforeCallback ==
    (event.op = "handleRequest" /\ event.result = "ok")
      => \E i, j \in 1..Len(event.calls) :
            /\ event.calls[i] = "fetchData"
            /\ event.calls[j] = "successCallback"
            /\ i < j

\* C9 amended: on the success of a mutation the success callback runs first
\* and the resync with trigger UserAction for the mutated collection is
\* issued right after it, in the same continuation of handleRequest.
C9_CallbackThenResync ==
    (event.op = "handleRequest" /\ event.result = "ok")
      => /\ \E i, j \in 1..Len(event.calls) :
               /\ event.calls[i] = "successCallback"
               /\ event.calls[j] = "fetchData"
               /\ i < j
         /\ resyncs # <<>>
         /\ resyncs[Len(resyncs)].isUserAction
         /\ resyncs[Len(resyncs)].cachedKey = event.key
         /\ resyncs[Len(resyncs)].network = Sources

\* An update has just succeeded: its callback closed the modal and its
\* resync is in flight.
C9_Witness ==
    /\ event.op = "handleRequest"
    /\ event.result = "ok"
    /\ event.method = "PUT"
    /\ ~isModalOpen
    /\ resyncs # <<>>
    /\ resyncs[Len(resyncs)].isUserAction

\* C10: the continuation of a mutation whose request failed, by a non-2xx
\* answer or a network error, sets the error message, changes no cache
\* entry, issues no resync, does not run the success callback (the form and
\* the modal stay as they are) and throws nothing to its caller.
C10_FailureLeavesStateAlone ==
    [][(event'.op = "handleRequest" /\ event'.result # "ok")
         => /\ apiError' \in {"API call failed.", "Invalid or expired token",
                              "Failed to fetch"}
            /\ ~event'.thrown
            /\ event'.calls = <<>>
            /\ UNCHANGED <<dataCache, resyncs, isFormVisible, isModalOpen>>
      ]_vars

\* A create was refused by the server: the form is still open, the message
\* is shown and the cache keeps the records of the collection.
C10_Witness ==
    /\ event.op = "handleRequest"
    /\ event.result = "http_error"
    /\ event.method = "POST"
    /\ isFormVisible
    /\ apiError = "API call failed."
    /\ dataCache[event.key].data # <<>>

\* C11: when a resync settles, a source whose request failed (non-2xx or
\* network failure) or that was not fetched keeps what the view showed for
\* it, or what the cache held for it, before: the view of a source that
\* showed records is not replaced by an empty list.
C11_FailureNeverBlanks ==
    [][\A i \in 1..Len(resyncs) : \A a \in Answers(resyncs[i]) :
          fetchDataSettle(i, a)
          => /\ (a["main"].outcome \in {"cached", "http_error", "auth_error", "network_error"}
                   /\ items # <<>>)
                  => items' \in {items, dataCache[resyncs[i].cachedKey].data} \ {<<>>}
             /\ (a["productLines"].outcome \in {"cached", "http_error", "auth_error", "network_error"}
                   /\ allProductLines # <<>>)
                  => allProductLines' \in {allProductLines, dataCache["productLinesList"].data} \ {<<>>}
             /\ (a["logs"].outcome \in {"cached", "http_error", "auth_error", "network_error"}
                   /\ logs # <<>>)
                  => logs' = logs
      ]_vars

\* C12: when a resync settles, the collection and the cross-reference list
\* whose request was answered with a non-empty array each replace their view
\* with that array and have their cache entry set to that array with the
\* timestamp the resync read from the clock.
C12_NonEmptyAnswerStored ==
    [][\A i \in 1..Len(resyncs) : \A a \in Answers(resyncs[i]) :
          fetchDataSettle(i, a)
          => /\ (a["main"].outcome = "ok" /\ a["main"].body # <<>>)
                  => /\ items' = a["main"].body
                     /\ dataCache'[resyncs[i].cachedKey]
                          = [data |-> a["main"].body,
                             timestamp |-> resyncs[i].currentTimestamp]
             /\ (a["productLines"].outcome = "ok" /\ a["productLines"].body # <<>>)
                  => /\ allProductLines' = a["productLines"].body
                     /\ dataCache'["productLinesList"]
                          = [data |-> a["productLines"].body,
                             timestamp |-> resyncs[i].currentTimestamp]
      ]_vars

\* C13: when a resync of "products" that a user action triggered settles
\* with its collection request failed (non-2xx or network error) and its
\* cross-reference request answered with a non-empty array, the view keeps
\* the records the call found cached for "products", the cross-reference
\* view and cache entry hold the fetched list, and handleLogout is not
\* called.
C13_PrimaryFailsListUpdates ==
    [][\A i \in 1..Len(resyncs) : \A a \in Answers(resyncs[i]) :
          ( /\ fetchDataSettle(i, a)
            /\ resyncs[i].cachedKey = "products"
            /\ resyncs[i].isUserAction
            /\ a["main"].outcome \in {"http_error", "auth_error", "network_error"}
            /\ a["productLines"].outcome = "ok"
            /\ a["productLines"].body # <<>> )
          => /\ items' = resyncs[i].dataCache.main.data
             /\ allProductLines' = a["productLines"].body
             /\ dataCache'["productLinesList"].data = a["productLines"].body
             /\ logoutPending' = logoutPending
             /\ authToken' = authToken
      ]_vars

\* C14: a resync raises the loading indicator only when a user action
\* triggered it or it is the initial load, never as a background refresh;
\* the step in which a resync that raised it ends, by success, partial
\* failure or rejection, clears it, and so does the early return of a call
\* that finds no session.
C14_LoadingRaisedAndCleared ==
    [][/\ (event'.op = "useEffect" /\ isLoading' /\ ~isLoading)
            => /\ Len(resyncs') = Len(resyncs) + 1
               /\ resyncs'[Len(resyncs')].isUserAction
                    \/ resyncs'[Len(resyncs')].isInitialLoad
       /\ (event'.op = "useEffect" /\ ~LoggedIn) => (~isLoading' /\ resyncs' = resyncs)
       /\ \A i \in 1..Len(resyncs) :
             ( /\ event'.op = "fetchData"
               /\ resyncs' = RemoveAt(resyncs, i)
               /\ resyncs[i].isUserAction \/ resyncs[i].isInitialLoad )
             => ~isLoading'
      ]_vars

\* A resync that raised the indicator has just ended by rejection and the
\* indicator is down.
C14_Witness ==
    /\ event.op = "fetchData"
    /\ ~event.applied
    /\ ~isLoading
    /\ apiError = "Unexpected token"

\* C15: when a resync writes the cache entry of the key it fetched, the
\* entry is still the one the resync found when it made its freshness
\* check: no other resync, mutation or logout wrote it in between.
C15_CheckThenWriteAtomic ==
    [][\A i \in 1..Len(resyncs) :
          ( /\ event'.op = "fetchData"
            /\ resyncs' = RemoveAt(resyncs, i)
            /\ dataCache'[resyncs[i].cachedKey] # dataCache[resyncs[i].cachedKey] )
          => dataCache[resyncs[i].cachedKey] = resyncs[i].dataCache.main
      ]_vars

\* C16: the step that completes a logout leaves no token and no profile in
\* state or in the tab's storage, empties items and logs, and leaves every
\* cache entry empty with timestamp 0.
C16_LogoutClears ==
    [][logoutPending' < logoutPending
         => /\ ~authToken' /\ ~userData'
            /\ sessionStorage' = [authToken |-> FALSE, userData |-> FALSE]
            /\ items' = <<>> /\ logs' = <<>>
            /\ \A k \in {"product_lines", "products", "productLinesList"} :
                  dataCache'[k] = [data |-> <<>>, timestamp |-> 0]
      ]_vars

\* A logout has just completed for a session that had loaded records.
C16_Witness ==
    /\ event.op = "handleLogout"
    /\ logoutPending = 0
    /\ ~authToken
    /\ ~sessionStorage.authToken
    /\ items = <<>>
    /\ allProductLines # <<>>
    /\ dataCache = [k \in CacheKeys |-> [data |-> <<>>, timestamp |-> 0]]


\* What a required field that was not filled in holds: nothing, or the
\* empty text.
NotFilledIn(record, key) ==
    {requiredFields(key)[i] : i \in
        {j \in 1..Len(requiredFields(key)) :
            Get(record, requiredFields(key)[j]) \in {Undefined, Null, Str("")}}}

\* C17: when the create form or the edit modal is submitted with a required
\* field not filled in, no request is sent and no mutation starts, and the
\* validation message names every required field that is not filled in (the
\* create form also shows the message as the page's error).
C17_MissingRequiredNamed ==
    (/\ event.op \in {"handleCreate", "handleSubmit"}
     /\ NotFilledIn(formRecord, activeCollectionKey) # {})
    => /\ request = <<>>
       /\ mutations = <<>>
       /\ ~isLoading
       /\ {warning[i] : i \in 1..Len(warning)} = NotFilledIn(formRecord, activeCollectionKey)
       /\ event.op = "handleCreate" => apiError = "Missing required fields"

\* The create form was submitted with both required fields of a product
\* empty, and both are named.
C17_Witness ==
    /\ event.op = "handleCreate"
    /\ activeCollectionKey = "products"
    /\ NotFilledIn(formRecord, activeCollectionKey) = {"product_name", "product_line"}
    /\ warning = <<"product_name", "product_line">>
    /\ request = <<>>


\* The new files and the kept server paths of an attachment field of a
\* form record.
LocalEntries(record, k) ==
    IF Get(record, k).t = "array"
    THEN {record[k].a[i] : i \in {j \in 1..Len(record[k].a) : record[k].a[j].t = "File"}}
    ELSE {}

RemoteEntries(record, k) ==
    IF Get(record, k).t = "array"
    THEN {record[k].a[i] : i \in {j \in 1..Len(record[k].a) : record[k].a[j].t = "string"}}
    ELSE {}

\* C18: the request of a create or an update is multipart exactly when an
\* attachment field of the form holds a new file; a multipart request
\* carries each new file under the field's name and each kept server path
\* under the field's name with the suffix _retained, and nothing else for
\* the field; a JSON request carries for the field exactly the kept server
\* paths, so a path taken out of the form is never sent.
C18_EncodingFollowsAttachments ==
    request # <<>> =>
        LET rq == request[1]
            local == \E k \in fileFields : LocalEntries(formRecord, k) # {}
        IN /\ rq.encoding = (IF local THEN "multipart" ELSE "json")
           /\ \A k \in fileFields :
                IF rq.encoding = "multipart"
                THEN /\ {p.value : p \in {q \in rq.parts : q.name = k /\ ~q.retained}}
                            = LocalEntries(formRecord, k)
                     /\ {p.value : p \in {q \in rq.parts : q.name = k /\ q.retained}}
                            = RemoteEntries(formRecord, k)
                ELSE \A p \in rq.parts :
                        p.name = k =>
                            /\ ~p.retained
                            /\ p.value.t = "array"
                            /\ {p.value.a[i] : i \in 1..Len(p.value.a)}
                                   = RemoteEntries(formRecord, k)

\* A product was submitted with a kept picture and a new one, and the
\* request is multipart.
C18_Witness ==
    /\ request # <<>>
    /\ request[1].encoding = "multipart"
    /\ LocalEntries(formRecord, "product_pictures") # {}
    /\ RemoteEntries(formRecord, "product_pictures") # {}


\* The fields the server manages, and the identity field.
ServerManaged ==
    {"id", "created_at", "created_by", "updated_at", "updated_by", "password_hash",
     "product_line_id"}

\* C19: the request of a create or an update, multipart or JSON, has no
\* part and no member named id or named after a field the server manages.
C19_NoServerManagedFieldSent ==
    request # <<>> => \A p \in request[1].parts : p.name \notin ServerManaged

\* An update was sent, as JSON, from a record that holds its id and its
\* creation date.
C19_Witness ==
    /\ request # <<>>
    /\ request[1].method = "PUT"
    /\ request[1].encoding = "json"
    /\ {"id", "created_at"} \subseteq DOMAIN formRecord

\* The same with a new file, so that the request is multipart.
C19_WitnessMultipart ==
    /\ request # <<>>
    /\ request[1].encoding = "multipart"
    /\ {"id", "created_at"} \subseteq DOMAIN formRecord


\* C20: in the JSON request of a create or an update, every member named
\* after a decimal field (a field whose getFieldType is number: gmdc_pct,
\* estimated_price_per_product) is a number. (A multipart request has no
\* types, so it is left out of the statement.)
C20_DecimalFieldsSentAsNumbers ==
    (request # <<>> /\ request[1].encoding = "json") =>
        \A p \in request[1].parts :
            getFieldType(p.name) = "number" => p.value.t = "number"


\* The kept server paths and the new files of the attachment field of the
\* record of the modal, each in the order of the field.
RemoteSeq(record) ==
    SelectSeq(record[fileField(activeCollectionKey)].a, LAMBDA e : e.t = "string")

LocalSeq(record) ==
    SelectSeq(record[fileField(activeCollectionKey)].a, LAMBDA e : e.t = "File")

\* C21: a selection of files in the modal appends: the new files that were
\* in the field before the selection are still there, in order, followed by
\* the files just selected.
C21_AddLocalAppends ==
    [][event'.op = "handleFileChange" =>
          LocalSeq(formRecord') = LocalSeq(formRecord) \o event'.files]_vars

\* C22: a selection of files in the modal leaves the server paths of the
\* field exactly as they were, in the same order.
C22_AddLocalKeepsRemote ==
    [][event'.op = "handleFileChange" =>
          RemoteSeq(formRecord') = RemoteSeq(formRecord)]_vars

\* Two files were selected into a field that holds two server paths.
C22_Witness ==
    /\ event.op = "handleFileChange"
    /\ Len(event.files) = 2
    /\ Len(RemoteSeq(formRecord)) = 2
    /\ Len(LocalSeq(formRecord)) = 2

\* C23: removing the entry at an index of one kind removes exactly the
\* entry at that position of the sequence of that kind, and leaves the
\* other entries of both kinds in place and in order; in particular, a
\* file added to a field without server paths and removed again leaves the
\* field empty.
C23_RemoveAtWithinKind ==
    [][event'.op = "handleRemoveFile" =>
          IF event'.isNewFile
          THEN /\ LocalSeq(formRecord') = RemoveAt(LocalSeq(formRecord), event'.index + 1)
               /\ RemoteSeq(formRecord') = RemoteSeq(formRecord)
               /\ formRecord'[fileField(activeCollectionKey)].a
                      = RemoteSeq(formRecord') \o LocalSeq(formRecord')
          ELSE /\ RemoteSeq(formRecord') = RemoveAt(RemoteSeq(formRecord), event'.index + 1)
               /\ LocalSeq(formRecord') = LocalSeq(formRecord)
               /\ formRecord'[fileField(activeCollectionKey)].a
                      = RemoteSeq(formRecord') \o LocalSeq(formRecord')]_vars

\* The first new file of a field was removed, and the field is empty: it
\* held no server path and one added file.
C23_Witness ==
    /\ event.op = "handleRemoveFile"
    /\ event.isNewFile
    /\ event.index = 0
    /\ formRecord[fileField(activeCollectionKey)].a = <<>>

\* The second new file was removed from a field that holds server paths,
\* which stayed.
C23_WitnessSecond ==
    /\ event.op = "handleRemoveFile"
    /\ event.isNewFile
    /\ event.index = 1
    /\ Len(RemoteSeq(formRecord)) = 2
    /\ Len(LocalSeq(formRecord)) = 1


\* C24: what a request carries for an attachment field is the kept server
\* paths of the field, all of them and in the order of the field, and the
\* new files of the field, all of them; a field of two paths and one file
\* gives two kept paths and one file.
C24_TransportSplit ==
    request # <<>> =>
        \A k \in DOMAIN request[1].attachments :
            /\ request[1].attachments[k].retained
                  = SelectSeq(formRecord[k].a, LAMBDA e : e.t = "string")
            /\ request[1].attachments[k].files
                  = SelectSeq(formRecord[k].a, LAMBDA e : e.t = "File")

\* A product was sent whose pictures are two kept paths with a new file in
\* between.
C24_Witness ==
    /\ request # <<>>
    /\ request[1].encoding = "multipart"
    /\ "product_pictures" \in DOMAIN request[1].attachments
    /\ Len(formRecord["product_pictures"].a) = 3
    /\ Len(request[1].attachments["product_pictures"].retained) = 2
    /\ Len(request[1].attachments["product_pictures"].files) = 1


\* The path whose records a cache entry stands for.
SourcePath(k) == IF k = "products" THEN "/api/products" ELSE "/api/product_lines"

\* C25: whenever a cache entry changes, either the continuation of a resync
\* stored in it a non-empty answer made of records of the entry's own path
\* (for productLinesList, the path of the product lines), or the entry was
\* reset to no data and timestamp 0.
C25_CacheWrittenOnlyByResync ==
    [][\A k \in CacheKeys :
          dataCache'[k] # dataCache[k] =>
             \/ dataCache'[k] = EmptyEntry
             \/ /\ event'.op = "fetchData"
                /\ Len(dataCache'[k].data) > 0
                /\ \A i \in 1..Len(dataCache'[k].data) :
                      dataCache'[k].data[i].path = SourcePath(k)]_vars

\* A resync of the products tab has just filled the entry of the products
\* and the entry of the list of product lines.
C25_Witness ==
    /\ event.op = "fetchData"
    /\ event.key = "products"
    /\ Len(dataCache["products"].data) > 0
    /\ Len(dataCache["productLinesList"].data) > 0


\* A step of the user: a click on a tab, or on the button of the login
\* screen.
UserInput == handleAuth \/ \E key \in collectionKeys : handleCollectionSwitch(key)

\* No fetch is in flight and no effect is about to start one.
Quiescent == resyncs = <<>> /\ ~effectPending /\ ~authPending

\* C26: once the user does nothing more, the resyncs come to an end: from
\* some point on no fetch is in flight and none is started, also when the
\* fetch of the collection fails or the collection is empty.
C26_ResyncChainTerminates ==
    <>[][~UserInput]_vars => <>[]Quiescent


\* C27: while no session is held (before the first login, and from a
\* logout to the next login), the list, the audit log and every cache entry
\* are empty: a fetch that was in flight when the logout ran writes nothing.
C27_NothingWrittenAfterLogout ==
    ~authToken =>
        /\ items = <<>>
        /\ logs = <<>>
        /\ \A k \in CacheKeys : dataCache[k] = EmptyEntry


\* C28: when the request of a resync for the collection is answered 2xx
\* with the empty array, the list shown after the resync is empty.
C28_EmptyAnswerEmptiesView ==
    [][\A i \in 1..Len(resyncs) : \A a \in OkAnswers(resyncs[i]) :
          ( /\ fetchDataSettle(i, a)
            /\ "main" \in resyncs[i].network
            /\ a["main"].body = <<>> )
          => items' = <<>>
      ]_vars


\* C29: the loading indicator is raised while the request of a mutation is
\* in flight, and still raised when the mutation has succeeded and the
\* resync it started is in flight.
C29_LoadingWhileMutationPending ==
    ( \/ mutations # <<>>
      \/ /\ event.op = "handleRequest"
         /\ event.result = "ok"
         /\ resyncs # <<>>
         /\ resyncs[Len(resyncs)].isUserAction
         /\ resyncs[Len(resyncs)].network # {} )
    => isLoading


\* C30: in every state and for every cache key, the entry holds no data if
\* and only if its timestamp is 0.
C30_EmptyIffTimestampZero ==
    \A k \in CacheKeys : (dataCache[k].data = <<>>) <=> (dataCache[k].timestamp = 0)

\* A successful mutation of the product lines has just reset their entry
\* while the entry of the products, stored by a resync, still holds data.
C30_Witness ==
    /\ event.op = "handleRequest"
    /\ event.result = "ok"
    /\ event.key = "product_lines"
    /\ dataCache["product_lines"] = EmptyEntry
    /\ dataCache["products"].data # <<>>
    /\ dataCache["products"].timestamp > 0

====
